---------------------------- MODULE Spec2Model ----------------------------
(***************************************************************************)
(* Order fulfillment and carrier (Aras Kargo) integration of the           *)
(* ICS-APP-BACK backend: order creation (routers/orders.py), the carrier   *)
(* gateway (integrations/shipping_provider.py), the periodic status        *)
(* synchronizer (services/orders_sync.py), the webhook handler             *)
(* (routers/shipping_webhooks.py) and the admin order actions.             *)
(*                                                                         *)
(* Conventions.  Python None is the string None for text- and id-valued    *)
(* fields and the record NoTrack for tracking numbers.  The Turkish status *)
(* literals are written in ASCII: "Hazirlaniyor" is 'Hazırlanıyor',        *)
(* "SiparisAlindi" 'Sipariş Alındı', "KargoyaVerildi" 'Kargoya Verildi',   *)
(* "Yolda" 'Yolda', "Dagitimda" 'Dağıtımda', "TeslimEdildi" 'Teslim        *)
(* Edildi', "Iptal" 'İptal', "Iade" 'İade'.  The document store is taken   *)
(* to answer every read and write (no Firestore failure is modelled), so   *)
(* the except branches around store reads are not taken.                   *)
(***************************************************************************)
EXTENDS Integers, Sequences, FiniteSets, TLC

VARIABLES
    orders,     \* orders collection: order id -> document, or NoDoc
    minted,     \* number of order identifiers minted so far (uuid4 stand-in)
    carts,      \* carts/{uid}.items
    profile,    \* users/{uid}: the address data of the user profile
    settings,   \* Settings read at start-up (config.py)
    accounts,   \* per uid: the auth account and its delete_requests/{uid}
    sync,       \* the periodic synchronizer: the documents its query returned
    shipments,  \* carrier side: integration codes with a successful SetOrder
    inflight,   \* the create-order calls between their lookup and their write
    resolved,   \* an address resolution: what it was given and what it gave
    calls,      \* carrier side: the label and pickup requests made, per order
    ev          \* the last handler that ran and its response

vars ==
    <<orders, minted, carts, profile, settings, accounts, inflight, resolved,
      sync, shipments, calls, ev>>

---------------------------------------------------------------------------
(* Bounds of the model *)

\* order identifiers that can be minted
MaxOrders == 2
\* orders created in the specification of the reconciliation
MaxReconOrders == 1
\* largest quantity a cart line can reach
MaxCartQty == 2
\* addresses a user profile can hold
MaxAddresses == 1

Users == {"u1", "u2"}
None == "None"
CheckoutIds == {None, "c1"}
Products == {"P1"}
OrderIds == 1..MaxOrders

\* the create-order calls that can be in progress at once
MaxCalls == 2
Calls == 1..MaxCalls

---------------------------------------------------------------------------
(* Values *)

\* schemas/order.py OrderStatus
OrderStatus ==
    {"Hazirlaniyor", "SiparisAlindi", "KargoyaVerildi", "Yolda",
     "Dagitimda", "TeslimEdildi", "Iptal", "Iade"}

\* services/orders_sync.py OPEN_STATUSES
OPEN_STATUSES == {"SiparisAlindi", "KargoyaVerildi", "Yolda", "Dagitimda"}

\* Python truthiness of a str-or-None value
Truthy(x) == x \notin {None, ""}

\* tracking numbers: None, the simulated FAKE-<order id>, the integration
\* code used as a temporary tracking reference, or a carrier key
NoTrack == [kind |-> "none", n |-> 0]
FakeTrack(order_id) == [kind |-> "FAKE", n |-> order_id]
CodeTrack(order_id) == [kind |-> "code", n |-> order_id]
KeyTrack(k) == [kind |-> "key", n |-> k]
TruthyTrack(t) == t.kind # "none"

NoDoc == [exists |-> FALSE]

\* a create-order call that has not started
IdleCall == [pc |-> "idle"]

\* the pickup field of an order document: absent, or {ok, ref, date, window}
NoPickup == [present |-> FALSE, ok |-> FALSE, ref |-> "None"]

\* addresses: None, the empty dict, or a dict with (possibly empty) city
NoAddr == [kind |-> "none", city |-> ""]
Addr(city) == [kind |-> "dict", city |-> city]
\* a truth test every value passes, None included
TruthyAddr_any(a) == TRUE

TruthyAddr(a) == a.kind = "dict"

---------------------------------------------------------------------------
(* Carrier status text.  A text is known by the keywords its lower-cased   *)
(* form contains, which is all the classifiers read.                       *)

\* the keywords that occur in (text or "").lower()
TextKW(text) ==
    CASE text = "Teslim Edildi"        -> {"teslim"}
      [] text = "Dagitimda"            -> {"dagitim"}
      [] text = "Yolda"                -> {"yolda"}
      [] text = "Transfer Merkezinde"  -> {"transfer"}
      [] text = "Kabul Edildi"         -> {"kabul"}
      [] text = "Subede"               -> {"sube"}
      [] text = "Hub"                  -> {"hub"}
      [] text = "Dagitimda Teslim"     -> {"dagitim", "teslim"}
      [] OTHER                         -> {}

\* routers/shipping_webhooks.py _map_status
map_status(ar) ==
    IF "teslim" \in TextKW(ar) THEN "TeslimEdildi"
    ELSE IF "dagitim" \in TextKW(ar) THEN "Dagitimda"
    ELSE IF "yolda" \in TextKW(ar) \/ "transfer" \in TextKW(ar) THEN "Yolda"
    ELSE "KargoyaVerildi"

\* services/orders_helpers.py _map_aras_status
map_aras_status(status_text) ==
    IF "teslim" \in TextKW(status_text) THEN "TeslimEdildi"
    ELSE IF "dagitim" \in TextKW(status_text) THEN "Dagitimda"
    ELSE IF \E k \in {"kabul", "transfer", "yolda", "sube", "hub"} :
                k \in TextKW(status_text)
         THEN "KargoyaVerildi"
    ELSE "Hazirlaniyor"

---------------------------------------------------------------------------
(* Carrier gateway (integrations/shipping_provider.py).  The carrier's     *)
(* answer to one HTTP call is an input: transport ("ok" or "error"), the   *)
(* HTTP status, whether the body parses, and the fields found in it.       *)

\* settings.ARAS_USERNAME and settings.ARAS_PASSWORD are configured
ArasCredentials(st) == st.ARAS_CREDENTIALS

\* create_shipment_with_setorder: (ok, tracking_number, message)
create_shipment_with_setorder(st, resp, integration_code) ==
    IF ~ArasCredentials(st) THEN <<FALSE, NoTrack, "credentials missing">>
    ELSE IF resp.transport # "ok" THEN <<FALSE, NoTrack, "connection error">>
    ELSE IF resp.http # 200 THEN <<FALSE, NoTrack, "http error">>
    ELSE IF ~resp.parses THEN <<FALSE, NoTrack, "parse error">>
    ELSE IF resp.result_code = None
         THEN <<FALSE, NoTrack, "unexpected format">>
    ELSE IF resp.result_code # "0"
         THEN <<FALSE, NoTrack,
                IF resp.result_msg # None THEN resp.result_msg
                                          ELSE "Bilinmeyen hata">>
    ELSE LET tracking == IF TruthyTrack(resp.invoice_key) THEN resp.invoice_key
                         ELSE resp.barcode
         IN  <<TRUE,
               IF TruthyTrack(tracking) THEN tracking
                                        ELSE CodeTrack(integration_code),
               "Gonderi olusturuldu.">>

\* the keyword parameters create_shipment_with_setorder declares (it takes
\* no **kwargs)
setorder_parameters == {"receiver", "integration_code"}

\* services/orders_helpers.py aras_single_package: calls
\* create_shipment_with_setorder(receiver=, integration_code=, contents=);
\* a keyword the callee does not declare raises TypeError before any
\* request is sent
aras_single_package(st, resp, integration_code) ==
    IF {"receiver", "integration_code", "contents"} \subseteq setorder_parameters
    THEN [raised |-> FALSE,
          res |-> create_shipment_with_setorder(st, resp, integration_code)]
    ELSE [raised |-> TRUE, res |-> <<FALSE, NoTrack, "TypeError">>]

\* get_status_with_integration_code: (ok, status_text, delivered, tracking)
\* resp.status_text is the first populated candidate tag (None if none),
\* resp.is_delivered says IsDelivered is one of "1", "true", "True"
get_status_with_integration_code(st, resp) ==
    IF ~ArasCredentials(st) THEN <<FALSE, None, FALSE, NoTrack>>
    ELSE IF resp.transport # "ok" THEN <<FALSE, "connection error", FALSE, NoTrack>>
    ELSE IF resp.http # 200 THEN <<FALSE, "http error", FALSE, NoTrack>>
    ELSE IF ~resp.parses THEN <<FALSE, "parse error", FALSE, NoTrack>>
    ELSE <<TRUE, resp.status_text,
           resp.is_delivered \/ "teslim" \in TextKW(resp.status_text),
           resp.tracking>>

---------------------------------------------------------------------------
(* Address resolution (services/orders_helpers.py resolve_active_address). *)
(* principal: [uid, embedded, ids], embedded the values of the keys        *)
(* active_address, address, shipping_address and ids those of              *)
(* active_address_id, selected_address_id, default_address_id, address_id. *)
(* user_data: [ids, active_address, addresses] of users/{uid}; sub the     *)
(* documents of users/{uid}/addresses and root those of addresses, in      *)
(* store order.                                                            *)

RECURSIVE FirstWhere(_, _, _)
\* index of the first element of seq at or after i for which flag holds, 0 if none
FirstWhere(seq, i, flag) ==
    IF i > Len(seq) THEN 0
    ELSE IF flag \in seq[i].flags THEN i
    ELSE FirstWhere(seq, i + 1, flag)

RECURSIVE FirstTruthyAddr(_, _)
FirstTruthyAddr(seq, i) ==
    IF i > Len(seq) THEN 0
    ELSE IF TruthyAddr(seq[i]) THEN i
    ELSE FirstTruthyAddr(seq, i + 1)

RECURSIVE FirstTruthyId(_, _)
FirstTruthyId(seq, i) ==
    IF i > Len(seq) THEN None
    ELSE IF Truthy(seq[i]) THEN seq[i]
    ELSE FirstTruthyId(seq, i + 1)

RECURSIVE FirstById(_, _, _)
FirstById(seq, i, id) ==
    IF i > Len(seq) THEN 0
    ELSE IF seq[i].id = id THEN i
    ELSE FirstById(seq, i + 1, id)

RECURSIVE FirstByOwner(_, _, _)
FirstByOwner(seq, i, uid) ==
    IF i > Len(seq) THEN 0
    ELSE IF seq[i].user_id = uid THEN i
    ELSE FirstByOwner(seq, i + 1, uid)

\* strategy 4: the addresses array of the profile
resolve_from_array(arr) ==
    LET hit(flag) == FirstWhere(arr, 1, flag)
    IN  IF hit("is_active") # 0 THEN arr[hit("is_active")].a
        ELSE IF hit("isDefault") # 0 THEN arr[hit("isDefault")].a
        ELSE IF hit("is_default") # 0 THEN arr[hit("is_default")].a
        ELSE IF hit("selected") # 0 THEN arr[hit("selected")].a
        ELSE arr[1].a

\* strategy 5: the addresses sub-collection
resolve_from_sub(sub) ==
    LET hit(flag) == FirstWhere(sub, 1, flag)
    IN  IF hit("is_active") # 0 THEN sub[hit("is_active")].a
        ELSE IF hit("is_default") # 0 THEN sub[hit("is_default")].a
        ELSE IF hit("selected") # 0 THEN sub[hit("selected")].a
        ELSE sub[1].a

resolve_active_address(principal, user_data, sub, root) ==
    LET p1 == FirstTruthyAddr(principal.embedded, 1)
        addr_id == IF FirstTruthyId(principal.ids, 1) # None
                   THEN FirstTruthyId(principal.ids, 1)
                   ELSE FirstTruthyId(user_data.ids, 1)
        by_sub == FirstById(sub, 1, addr_id)
        by_root == FirstById(root, 1, addr_id)
        owned == FirstByOwner(root, 1, principal.uid)
    IN  IF ~Truthy(principal.uid) THEN NoAddr
        ELSE IF p1 # 0 THEN principal.embedded[p1]
        ELSE IF TruthyAddr(user_data.active_address)
             THEN user_data.active_address
        ELSE IF addr_id # None /\ by_sub # 0 THEN sub[by_sub].a
        ELSE IF addr_id # None /\ by_root # 0 THEN root[by_root].a
        ELSE IF Len(user_data.addresses) > 0
             THEN resolve_from_array(user_data.addresses)
        ELSE IF Len(sub) > 0 THEN resolve_from_sub(sub)
        ELSE IF owned # 0 THEN root[owned].a
        ELSE NoAddr

\* the principal the order endpoints get for user uid: the authenticated
\* identity, carrying no address of its own
Principal(uid) ==
    [uid |-> uid, embedded |-> <<NoAddr, NoAddr, NoAddr>>,
     ids |-> <<None, None, None, None>>]

\* users/{uid} as the users router writes it: the addresses array
UserData(pr) ==
    [ids |-> <<None, None, None, None>>, active_address |-> NoAddr,
     addresses |-> pr.addresses]

---------------------------------------------------------------------------
(* Cart and order documents (services/orders_helpers.py) *)

\* fetch_cart_items: carts/{uid}.items when it is a non-empty list; the item
\* sub-collection and the users/{uid}.cart.items shapes are empty here
fetch_cart_items(cs, uid) == cs[uid]

\* clear_cart: carts/{uid}.items := []
clear_cart(cs, uid) == [cs EXCEPT ![uid] = <<>>]

\* Amounts of money are integers, in tenths of the minor unit (1/1000 of
\* the currency unit), so 2500 is 2.50.

\* Decimal.quantize(Decimal("0.01")) under the default context: the nearest
\* multiple of the minor unit, a tie going to the even one
quantize(x) ==
    LET lo == x - (x % 10)
        r == x % 10
    IN  IF r < 5 THEN lo
        ELSE IF r > 5 THEN lo + 10
        ELSE IF (lo \div 10) % 2 = 0 THEN lo ELSE lo + 10

\* a line whose total is the unit price, whatever the quantity
coerce_item_unit(raw) ==
    LET q == IF "quantity" \in DOMAIN raw THEN raw.quantity ELSE 1
        price_dec == IF "unit_price" \in DOMAIN raw THEN raw.unit_price
                     ELSE IF "price" \in DOMAIN raw THEN raw.price ELSE 0
    IN  [product_id |-> raw.product_id, quantity |-> IF q > 1 THEN q ELSE 1,
         unit_price |-> price_dec, line_total |-> quantize(price_dec)]

\* coerce_item: the line of the order for a raw item; quantity is read from
\* the key "quantity", 1 when the item has none, and is at least 1; the
\* price from unit_price, else price, else 0; line_total is their product
coerce_item(raw) ==
    LET q == IF "quantity" \in DOMAIN raw THEN raw.quantity ELSE 1
        qty == IF q > 1 THEN q ELSE 1
        price_dec == IF "unit_price" \in DOMAIN raw THEN raw.unit_price
                     ELSE IF "price" \in DOMAIN raw THEN raw.price ELSE 0
    IN  [product_id |-> raw.product_id, quantity |-> qty,
         unit_price |-> price_dec, line_total |-> quantize(price_dec * qty)]

coerce_items(raw_items) ==
    [i \in 1..Len(raw_items) |-> coerce_item(raw_items[i])]

\* sum(int(it["quantity"]) for it in items)
RECURSIVE sum_quantity(_)
sum_quantity(items) ==
    IF items = <<>> THEN 0
    ELSE Head(items).quantity + sum_quantity(Tail(items))

\* sum(Decimal(str(it["line_total"])) for it in items)
RECURSIVE sum_line_total(_)
sum_line_total(items) ==
    IF items = <<>> THEN 0
    ELSE Head(items).line_total + sum_line_total(Tail(items))

\* calc_totals: discount, shipping and tax are fixed at zero
calc_totals(items) ==
    LET subtotal == sum_line_total(items)
        discount == 0
        shipping == 0
        tax == 0
    IN  [item_count |-> sum_quantity(items),
         subtotal |-> subtotal,
         discount |-> discount,
         shipping |-> shipping,
         tax |-> tax,
         grand_total |-> quantize(subtotal - discount + shipping + tax)]

\* build_order_doc: the fields of the order document the order flow reads
\* or writes later; tracking_number and _last_aras_status are the top-level
\* fields the reconciliation writes, absent (None) in a new document
build_order_doc(uid, order_id, addr, items, totals, tracking_no, simulated, checkout_id) ==
    [exists |-> TRUE,
     user_id |-> uid,
     status |-> "Hazirlaniyor",
     integration_code |-> order_id,
     address |-> addr,
     items |-> items,
     totals |-> totals,
     label_url |-> None,
     pickup |-> NoPickup,
     shipment_tracking_number |-> tracking_no,
     shipment_simulated |-> simulated,
     checkout_id |-> IF Truthy(checkout_id) THEN checkout_id ELSE None,
     tracking_number |-> NoTrack,
     last_aras_status |-> None,
     simulated_flag |-> FALSE]

\* _order_doc_to_out: the id and tracking number of the response
order_doc_to_out(doc) ==
    [id |-> doc.integration_code,
     tracking_number |-> IF TruthyTrack(doc.tracking_number)
                         THEN doc.tracking_number
                         ELSE doc.shipment_tracking_number,
     status |-> doc.status]

\* an idempotency query that finds nothing
existing_none(os, uid, checkout_id) == {}

\* the idempotency query: orders of uid carrying checkout_id
existing(os, uid, checkout_id) ==
    {o \in OrderIds : os[o].exists /\ os[o].user_id = uid
                        /\ os[o].checkout_id = checkout_id}

\* ensure_aras_env_or_raise
ensure_aras_env(st) ==
    st.ARAS_ENV \in {"TEST", "SANDBOX", "PROD", "PRODUCTION", "LIVE"}

---------------------------------------------------------------------------
(* Initial state: empty collections, settings as the environment set them *)

SecretValues == {"", "s3cret"}

\* what a handler leaves in ev: its name, the HTTP status code of its
\* response (0 for the scheduler's job), the order concerned (0 if none)
\* and a note on the path taken
Ev(op, code, oid, note) ==
    [op |-> op, code |-> code, oid |-> oid, note |-> note]

\* the settings a deployment can start with; DefaultSettings leaves
\* AUTO_LABEL and AUTO_PICKUP at the defaults of config.py
AllSettings ==
    [ARAS_WEBHOOK_SECRET : SecretValues,
     ARAS_ENV : {"TEST"},
     ARAS_CREDENTIALS : {TRUE},
     AUTO_LABEL : BOOLEAN,
     AUTO_PICKUP : BOOLEAN]

DefaultSettings == {st \in AllSettings : ~st.AUTO_LABEL /\ ~st.AUTO_PICKUP}

\* no address resolution under way
Unresolved == [done |-> FALSE]

InitOf(S, R) ==
    /\ orders = [o \in OrderIds |-> NoDoc]
    /\ minted = 0
    /\ carts = [u \in Users |-> <<>>]
    /\ profile = [u \in Users |-> [addresses |-> <<>>]]
    /\ settings \in S
    /\ accounts = [u \in Users |-> [exists |-> TRUE, request |-> "none"]]
    /\ sync = <<>>
    /\ shipments = {}
    /\ inflight = [c \in Calls |-> IdleCall]
    /\ resolved \in R
    /\ calls = {}
    /\ ev = Ev("start", 0, 0, "-")

Init == InitOf(DefaultSettings, {Unresolved})

---------------------------------------------------------------------------
(* Users router and cart router: what feeds order creation *)

\* routers/users.py add_address
add_address(u, city) ==
    /\ Len(profile[u].addresses) < MaxAddresses
    /\ profile' = [profile EXCEPT ![u].addresses =
                      Append(@, [a |-> Addr(city), flags |-> {}])]
    /\ ev' = Ev("add_address", 200, 0, "-")
    /\ UNCHANGED <<orders, minted, carts, settings, accounts, inflight, resolved, calls, sync, shipments>>

\* routers/users.py delete_address
delete_address(u, i) ==
    /\ i \in 1..Len(profile[u].addresses)
    /\ profile' = [profile EXCEPT ![u].addresses =
                      SubSeq(@, 1, i - 1) \o SubSeq(@, i + 1, Len(@))]
    /\ ev' = Ev("delete_address", 200, 0, "-")
    /\ UNCHANGED <<orders, minted, carts, settings, accounts, inflight, resolved, calls, sync, shipments>>

\* the items list add_to_cart stores: the line of product_id gets
\* qty + quantity, a new line is appended otherwise
RECURSIVE cart_add(_, _, _)
cart_add(items, product_id, quantity) ==
    IF items = <<>> THEN <<[product_id |-> product_id, qty |-> quantity]>>
    ELSE IF Head(items).product_id = product_id
         THEN <<[Head(items) EXCEPT !.qty = @ + quantity]>> \o Tail(items)
    ELSE <<Head(items)>> \o cart_add(Tail(items), product_id, quantity)

RECURSIVE cart_qty(_)
cart_qty(items) ==
    IF items = <<>> THEN 0 ELSE Head(items).qty + cart_qty(Tail(items))

\* routers/carts.py add_to_cart
add_to_cart(u, product_id, quantity) ==
    /\ cart_qty(carts[u]) + quantity <= MaxCartQty
    /\ carts' = [carts EXCEPT ![u] = cart_add(@, product_id, quantity)]
    /\ ev' = Ev("add_to_cart", 200, 0, "-")
    /\ UNCHANGED <<orders, minted, profile, settings, accounts, inflight, resolved, calls, sync, shipments>>

\* routers/carts.py clear_cart (DELETE /cart)
delete_cart(u) ==
    /\ carts[u] # <<>>
    /\ carts' = [carts EXCEPT ![u] = <<>>]
    /\ ev' = Ev("delete_cart", 204, 0, "-")
    /\ UNCHANGED <<orders, minted, profile, settings, accounts, inflight, resolved, calls, sync, shipments>>

---------------------------------------------------------------------------
(* Order creation (routers/orders.py _create_order_impl) *)

\* integrations/shipping_provider.py get_label_pdf and request_pickup: both
\* raise NotImplementedError
get_label_pdf(integration_code) ==
    [raised |-> TRUE, ok |-> FALSE, pdf |-> FALSE]

request_pickup(integration_code) ==
    [raised |-> TRUE, ok |-> FALSE, ref |-> None]

\* services/fulfillment.py attach_label: the label is asked of the gateway;
\* a refusal or an empty pdf returns failure, otherwise label_url is written
attach_label(os, cl, order_id, integration_code) ==
    LET r == get_label_pdf(integration_code)
        asked == cl \cup {<<"label", integration_code>>}
    IN  IF r.raised
        THEN [raised |-> TRUE, ok |-> FALSE, orders |-> os, calls |-> asked]
        ELSE IF ~r.ok \/ ~r.pdf
        THEN [raised |-> FALSE, ok |-> FALSE, orders |-> os, calls |-> asked]
        ELSE [raised |-> FALSE, ok |-> TRUE,
              orders |-> [os EXCEPT ![order_id].label_url = "url"],
              calls |-> asked]

\* services/fulfillment.py schedule_pickup: the pickup is asked of the
\* gateway and its outcome is written to the pickup field
schedule_pickup(os, cl, order_id, integration_code) ==
    LET r == request_pickup(integration_code)
        asked == cl \cup {<<"pickup", integration_code>>}
    IN  IF r.raised
        THEN [raised |-> TRUE, ok |-> FALSE, orders |-> os, calls |-> asked]
        ELSE [raised |-> FALSE, ok |-> r.ok,
              orders |-> [os EXCEPT
                            ![order_id].pickup =
                                [present |-> TRUE, ok |-> r.ok,
                                 ref |-> IF r.ok THEN r.ref ELSE None]],
              calls |-> asked]

\* auto_after_create with the first exception ending the call: the pickup
\* hook is not come to when the label hook raised
auto_after_create_unguarded(st, os, cl, order_id) ==
    LET a == IF st.AUTO_LABEL THEN attach_label(os, cl, order_id, order_id)
             ELSE [raised |-> FALSE, ok |-> FALSE, orders |-> os, calls |-> cl]
        b == IF st.AUTO_PICKUP /\ ~a.raised
             THEN schedule_pickup(a.orders, a.calls, order_id, order_id)
             ELSE a
    IN  [orders |-> b.orders, calls |-> b.calls]

\* services/fulfillment.py auto_after_create: with AUTO_LABEL set the label
\* hook runs, with AUTO_PICKUP set the pickup hook runs, each inside its own
\* try/except, so what either raised is dropped
auto_after_create(st, os, cl, order_id) ==
    LET a == IF st.AUTO_LABEL THEN attach_label(os, cl, order_id, order_id)
             ELSE [raised |-> FALSE, ok |-> FALSE, orders |-> os, calls |-> cl]
        b == IF st.AUTO_PICKUP
             THEN schedule_pickup(a.orders, a.calls, order_id, order_id)
             ELSE a
    IN  [orders |-> b.orders, calls |-> b.calls]

\* no answer: the call sends nothing to the carrier
NoAnswer == [transport |-> "none"]

\* a refusal that has emptied the carts on its way
create_failed_clears(code, stage, mt) ==
    [orders |-> orders, minted |-> mt, carts |-> [u \in Users |-> <<>>],
     shipments |-> shipments, calls |-> calls,
     ev |-> Ev("create", code, 0, stage)]

\* a call refused with no effect but the identifier it may have minted
create_failed(code, stage, mt) ==
    [orders |-> orders, minted |-> mt, carts |-> carts,
     shipments |-> shipments, calls |-> calls,
     ev |-> Ev("create", code, 0, stage)]

\* what a create-order call has read when it comes to mint an identifier:
\* the address, the cart, the items and the result of the idempotency query
create_order_head(u, checkout_id, request_items) ==
    LET cart_items_raw == fetch_cart_items(carts, u)
    IN  [addr |-> resolve_active_address(Principal(u), UserData(profile[u]),
                                         <<>>, <<>>),
         cart_items_raw |-> cart_items_raw,
         raw_items |-> IF cart_items_raw # <<>> THEN cart_items_raw
                                                ELSE request_items,
         found |-> IF Truthy(checkout_id)
                   THEN existing(orders, u, checkout_id) ELSE {}]

\* the call up to the idempotency query: the outcomes that end it there,
\* none when it goes on.  The query returns any one of the matching
\* documents (limit(1), no ordering)
create_order_early(head) ==
    IF ~TruthyAddr(head.addr) THEN {create_failed(400, "no_address", minted)}
    ELSE IF head.raw_items = <<>>
         THEN {create_failed(400, "empty_cart", minted)}
    ELSE {[orders |-> orders, minted |-> minted, carts |-> carts,
           shipments |-> shipments, calls |-> calls,
           ev |-> Ev("create", 201, order_doc_to_out(orders[o]).id,
                     "replay")] : o \in head.found}

\* the call from the identifier on; answer is the carrier's answer to
\* SetOrder, should the call send one
create_order_rest(u, simulate, clear_cart_on_success, checkout_id, head, answer) ==
    LET order_id == minted + 1
        ship == aras_single_package(settings, answer, order_id)
        persist(tracking_no, sent) ==
            LET items == coerce_items(head.raw_items)
                doc == build_order_doc(u, order_id, head.addr, items,
                                       calc_totals(items), tracking_no,
                                       simulate, checkout_id)
                written == [orders EXCEPT ![order_id] = doc]
                auto == auto_after_create(settings, written, calls, order_id)
                after == auto.orders
            IN  [orders |-> after, minted |-> order_id,
                 carts |-> IF clear_cart_on_success
                              /\ head.cart_items_raw # <<>>
                           THEN clear_cart(carts, u) ELSE carts,
                 shipments |-> IF sent THEN shipments \cup {order_id}
                                       ELSE shipments,
                 calls |-> auto.calls,
                 ev |-> Ev("create", 201,
                           order_doc_to_out(after[order_id]).id, "created")]
    IN  IF minted >= MaxOrders THEN {}
        ELSE IF simulate THEN {persist(FakeTrack(order_id), FALSE)}
        ELSE IF ~ensure_aras_env(settings)
             THEN {create_failed(400, "bad_env", order_id)}
        ELSE IF ship.raised THEN {create_failed(500, "raised", order_id)}
        ELSE IF ~ship.res[1]
             THEN {create_failed(502, "carrier_failed", order_id)}
        ELSE {persist(ship.res[2], TRUE)}

\* the effects and the response of one create-order call run without
\* interruption: the set of its possible outcomes
create_order_impl(u, simulate, clear_cart_on_success, checkout_id, request_items, answer) ==
    LET head == create_order_head(u, checkout_id, request_items)
    IN  IF create_order_early(head) # {} THEN create_order_early(head)
        ELSE create_order_rest(u, simulate, clear_cart_on_success,
                               checkout_id, head, answer)

\* POST /orders
CreateOrder(u, simulate, clear_cart_on_success, checkout_id, request_items, answer) ==
    /\ \E r \in create_order_impl(u, simulate, clear_cart_on_success,
                                  checkout_id, request_items, answer) :
          /\ orders' = r.orders
          /\ minted' = r.minted
          /\ carts' = r.carts
          /\ shipments' = r.shipments
          /\ calls' = r.calls
          /\ ev' = r.ev
    /\ UNCHANGED <<profile, settings, accounts, inflight, resolved, sync>>

---------------------------------------------------------------------------
(* Forced synchronisation and admin actions (routers/orders.py) *)

\* the patch sync_status_from_aras and admin_sync_status apply to document d
\* for a successful status query res = (ok, status_text, delivered, tracking)
sync_status_patch(d, res) ==
    LET new_status == IF res[3] THEN "TeslimEdildi"
                                ELSE map_aras_status(res[2])
    IN  [d EXCEPT
           !.status = new_status,
           !.tracking_number =
               IF TruthyTrack(res[4]) /\ res[4] # d.tracking_number
               THEN res[4] ELSE @,
           !.last_aras_status = IF Truthy(res[2]) THEN res[2] ELSE @]

\* the test both handlers use to skip simulated orders: the _simulated
\* field, or a top-level tracking_number that starts with FAKE-
looks_simulated(d) ==
    d.simulated_flag \/ d.tracking_number.kind = "FAKE"

\* the part the two sync-status handlers share, from the simulated test on
sync_status_body(op, o, answer) ==
    LET d == orders[o]
        res == get_status_with_integration_code(settings, answer)
    IN  IF looks_simulated(d)
        THEN /\ ev' = Ev(op, 200, o, "skipped")
             /\ UNCHANGED orders
        ELSE IF ~res[1]
        THEN /\ ev' = Ev(op, 502, o, "query_failed")
             /\ UNCHANGED orders
        ELSE /\ orders' = [orders EXCEPT ![o] = sync_status_patch(d, res)]
             /\ ev' = Ev(op, 200, o,
                         IF res[3] THEN "delivered" ELSE "not_delivered")

\* POST /orders/{order_id}/sync-status
sync_status_from_aras(o, uid, is_admin, answer) ==
    /\ IF ~orders[o].exists
       THEN /\ ev' = Ev("sync_status", 404, 0, "-")
            /\ UNCHANGED orders
       ELSE IF orders[o].user_id # uid /\ ~is_admin
       THEN /\ ev' = Ev("sync_status", 403, o, "-")
            /\ UNCHANGED orders
       ELSE sync_status_body("sync_status", o, answer)
    /\ UNCHANGED <<minted, carts, profile, settings, accounts, inflight, resolved, calls, sync, shipments>>

\* POST /admin/orders/{order_id}/sync-status
admin_sync_status(o, answer) ==
    /\ IF ~orders[o].exists
       THEN /\ ev' = Ev("admin_sync_status", 404, 0, "-")
            /\ UNCHANGED orders
       ELSE sync_status_body("admin_sync_status", o, answer)
    /\ UNCHANGED <<minted, carts, profile, settings, accounts, inflight, resolved, calls, sync, shipments>>

\* POST /admin/orders/{order_id}/mark-delivered
admin_mark_delivered(o) ==
    /\ IF ~orders[o].exists
       THEN /\ ev' = Ev("mark_delivered", 404, 0, "-")
            /\ UNCHANGED orders
       ELSE /\ orders' = [orders EXCEPT ![o].status = "TeslimEdildi"]
            /\ ev' = Ev("mark_delivered", 200, o, "-")
    /\ UNCHANGED <<minted, carts, profile, settings, accounts, inflight, resolved, calls, sync, shipments>>

\* POST /admin/orders/{order_id}/mark-shipped
admin_mark_shipped(o) ==
    /\ IF ~orders[o].exists
       THEN /\ ev' = Ev("mark_shipped", 404, 0, "-")
            /\ UNCHANGED orders
       ELSE /\ orders' =
                 IF orders[o].status \in {"TeslimEdildi", "Iptal"}
                 THEN orders
                 ELSE IF orders[o].status # "KargoyaVerildi"
                 THEN [orders EXCEPT ![o].status = "KargoyaVerildi"]
                 ELSE orders
            /\ ev' = Ev("mark_shipped", 200, o, "-")
    /\ UNCHANGED <<minted, carts, profile, settings, accounts, inflight, resolved, calls, sync, shipments>>

---------------------------------------------------------------------------
(* Periodic synchronizer (services/orders_sync.py sync_open_orders_once).  *)
(* A run is its query followed by one step per returned document; sync     *)
(* holds the documents still to process, as they were read: of a document *)
(* d the loop reads integration_code (the id), tracking_number, and status *)
(* in a branch that does nothing.                                          *)

\* the documents the query of a run returns
sync_selected(os) ==
    {o \in OrderIds : os[o].exists /\ os[o].status \in OPEN_STATUSES}

\* the orderings of a set of order ids
Orderings(S) ==
    {q \in [1..Cardinality(S) -> S] : \A i, j \in 1..Cardinality(S) :
                                          i # j => q[i] # q[j]}

\* a patch that leaves the status alone whatever the delivered flag says
sync_patch_keeps_status(cur, d, res) ==
    [cur EXCEPT
       !.last_aras_status = res[2],
       !.tracking_number =
           IF TruthyTrack(res[4]) /\ res[4] # d.tracking_number
           THEN res[4] ELSE @]

\* a patch that writes the status of the carrier's text when the carrier
\* does not report delivered
sync_patch_classifies(cur, d, res) ==
    [cur EXCEPT
       !.last_aras_status = res[2],
       !.status = IF res[3] THEN "TeslimEdildi" ELSE map_aras_status(res[2]),
       !.tracking_number =
           IF TruthyTrack(res[4]) /\ res[4] # d.tracking_number
           THEN res[4] ELSE @]

\* the patch of the synchronizer for a successful status query, applied to
\* the stored document cur; d is the document as the query returned it
sync_patch(cur, d, res) ==
    [cur EXCEPT
       !.last_aras_status = res[2],
       !.status = IF res[3] THEN "TeslimEdildi" ELSE @,
       !.tracking_number =
           IF TruthyTrack(res[4]) /\ res[4] # d.tracking_number
           THEN res[4] ELSE @]

\* the scheduler starts a run: the query
SyncStart ==
    /\ sync = <<>>
    /\ \E q \in Orderings(sync_selected(orders)) :
          sync' = [i \in 1..Len(q) |->
                      [id |-> q[i],
                       tracking_number |-> orders[q[i]].tracking_number]]
    /\ ev' = Ev("sync_start", 0, 0, "-")
    /\ UNCHANGED <<orders, minted, carts, profile, settings, accounts, inflight, resolved, calls, shipments>>

\* a loop that a failed query ends: the rest of the selection is dropped
SyncStep_abort(answer) ==
    /\ sync # <<>>
    /\ LET d == Head(sync)
           res == get_status_with_integration_code(settings, answer)
       IN  IF ~res[1]
           THEN /\ ev' = Ev("sync_step", 0, d.id, "query_failed")
                /\ sync' = <<>>
                /\ UNCHANGED orders
           ELSE /\ orders' = [orders EXCEPT
                                 ![d.id] = sync_patch(@, d, res)]
                /\ ev' = Ev("sync_step", 0, d.id,
                            IF res[3] THEN "delivered" ELSE "not_delivered")
                /\ sync' = Tail(sync)
    /\ UNCHANGED <<minted, carts, profile, settings, accounts, inflight, resolved, calls, shipments>>

\* one iteration of the loop of a run
SyncStep(answer) ==
    /\ sync # <<>>
    /\ LET d == Head(sync)
           res == get_status_with_integration_code(settings, answer)
       IN  IF ~res[1]
           THEN /\ ev' = Ev("sync_step", 0, d.id, "query_failed")
                /\ UNCHANGED orders
           ELSE /\ orders' = [orders EXCEPT
                                 ![d.id] = sync_patch(@, d, res)]
                /\ ev' = Ev("sync_step", 0, d.id,
                            IF res[3] THEN "delivered" ELSE "not_delivered")
    /\ sync' = Tail(sync)
    /\ UNCHANGED <<minted, carts, profile, settings, accounts, inflight, resolved, calls, shipments>>

---------------------------------------------------------------------------
(* Webhook (routers/shipping_webhooks.py aras_webhook).  payload.integ is  *)
(* integration_code or order_id (0 when both are missing),                 *)
(* payload.status_text is status or message or "".                         *)

\* a query with no filter on integration_code
webhook_target_all(os, integ) == {o \in OrderIds : os[o].exists}

\* the orders the query on integration_code returns
webhook_target(os, integ) ==
    {o \in OrderIds : os[o].exists /\ os[o].integration_code = integ}

\* the shared-secret test: TRUE when the call is let through
webhook_authorized(st, payload) ==
    ~(Truthy(st.ARAS_WEBHOOK_SECRET)
        /\ payload.secret # st.ARAS_WEBHOOK_SECRET)

\* a patch written with set in place of update: the fields it does not name
\* are lost
webhook_patch_set(d, payload) ==
    [d EXCEPT
       !.status = map_status(payload.status_text),
       !.last_aras_status = payload.status_text,
       !.tracking_number = payload.tracking_number,
       !.items = <<>>,
       !.totals = calc_totals(<<>>),
       !.address = NoAddr]

\* the patch of the webhook
webhook_patch(d, payload) ==
    [d EXCEPT
       !.status = map_status(payload.status_text),
       !.last_aras_status = payload.status_text,
       !.tracking_number = IF TruthyTrack(payload.tracking_number)
                           THEN payload.tracking_number ELSE @]

aras_webhook(payload) ==
    /\ IF ~webhook_authorized(settings, payload)
       THEN /\ ev' = Ev("webhook", 401, 0, "-")
            /\ UNCHANGED orders
       ELSE IF payload.integ = 0
       THEN /\ ev' = Ev("webhook", 400, 0, "-")
            /\ UNCHANGED orders
       ELSE IF webhook_target(orders, payload.integ) = {}
       THEN /\ ev' = Ev("webhook", 404, 0, "-")
            /\ UNCHANGED orders
       ELSE \E o \in webhook_target(orders, payload.integ) :
              /\ orders' = [orders EXCEPT ![o] = webhook_patch(@, payload)]
              /\ ev' = Ev("webhook", 200, o, "-")
    /\ UNCHANGED <<minted, carts, profile, settings, accounts, inflight, resolved, calls, sync, shipments>>

---------------------------------------------------------------------------
(* Inputs *)

\* carrier answers to SetOrder
SetOrderAnswers ==
    {[transport |-> "ok", http |-> 200, parses |-> TRUE,
      result_code |-> "0", result_msg |-> None,
      invoice_key |-> KeyTrack(123456789), barcode |-> NoTrack],
     [transport |-> "ok", http |-> 200, parses |-> TRUE,
      result_code |-> "5", result_msg |-> "Invalid address",
      invoice_key |-> NoTrack, barcode |-> NoTrack],
     [transport |-> "error", http |-> 0, parses |-> FALSE,
      result_code |-> None, result_msg |-> None,
      invoice_key |-> NoTrack, barcode |-> NoTrack]}

\* carrier answers to GetOrderWithIntegrationCode
QueryTexts == {None, "Dagitimda"}
QueryTracks == {NoTrack, KeyTrack(7)}
QueryAnswers ==
    [transport : {"ok"}, http : {200}, parses : {TRUE},
     status_text : QueryTexts, is_delivered : BOOLEAN, tracking : QueryTracks]
    \cup
    [transport : {"error"}, http : {0}, parses : {FALSE},
     status_text : {None}, is_delivered : {FALSE}, tracking : {NoTrack}]

\* webhook payloads
WebhookTexts == {"Dagitimda"}
WebhookPayloads ==
    [secret : {None, "s3cret", "wrong"}, integ : 0..MaxReconOrders,
     status_text : WebhookTexts, tracking_number : QueryTracks]

\* the order ids the reconciliation is called with: an id no order has yet
\* is answered 404
ReconIds == 1..MaxReconOrders

\* the callers of the user sync-status endpoint: (uid, is admin)
Callers == {<<"u1", FALSE>>, <<"u2", FALSE>>, <<"u2", TRUE>>}

\* the items a request body carries: none, or one line that is free of charge
RequestItems ==
    {<<>>, <<[product_id |-> "P1", quantity |-> 1, price |-> 0]>>}

---------------------------------------------------------------------------
(* Specifications *)

\* the reconciliation of orders: one user places orders from request items
\* with simulate=true, the carrier, the scheduler and the admin act on them
Next ==
    \/ add_address("u1", "Ankara")
    \/ /\ minted < MaxReconOrders
       /\ CreateOrder("u1", TRUE, TRUE, None,
                      <<[product_id |-> "P1", quantity |-> 2, price |-> 2500]>>, NoAnswer)
    \/ \E o \in ReconIds, caller \in Callers, answer \in QueryAnswers :
          sync_status_from_aras(o, caller[1], caller[2], answer)
    \/ \E o \in ReconIds, answer \in QueryAnswers : admin_sync_status(o, answer)
    \/ \E o \in ReconIds : admin_mark_delivered(o)
    \/ \E o \in ReconIds : admin_mark_shipped(o)
    \/ SyncStart
    \/ \E answer \in QueryAnswers : SyncStep(answer)
    \/ \E payload \in WebhookPayloads : aras_webhook(payload)

Spec == Init /\ [][Next]_vars

\* the checkout: users fill address books, u1 fills and empties a cart, and
\* both place orders; a simulated call sends nothing to the carrier, so it
\* is given no answer
NextCheckout ==
    \/ \E u \in Users : add_address(u, "Ankara")
    \/ \E i \in 1..MaxAddresses : delete_address("u1", i)
    \/ \E p \in Products : add_to_cart("u1", p, 1)
    \/ delete_cart("u1")
    \/ \E u \in Users, simulate \in BOOLEAN, clr \in BOOLEAN,
          cid \in CheckoutIds, items \in RequestItems :
          \E answer \in IF simulate THEN {NoAnswer} ELSE SetOrderAnswers :
             CreateOrder(u, simulate, clr, cid, items, answer)

SpecCheckout == Init /\ [][NextCheckout]_vars

---------------------------------------------------------------------------
(* Properties of the checkout *)

\* the persisted orders of user u that carry checkout id cid
Matching(u, cid) ==
    {o \in OrderIds : orders[o].exists /\ orders[o].user_id = u
                        /\ orders[o].checkout_id = cid}

\* a step that is a create-order call of user u with checkout id cid
CreateCall(u, cid) ==
    /\ ev'.op = "create"
    /\ \E simulate \in BOOLEAN, clr \in BOOLEAN, items \in RequestItems,
          answer \in SetOrderAnswers \cup {NoAnswer} :
          CreateOrder(u, simulate, clr, cid, items, answer)

\* a step that is a non-simulated create-order call of user u that passes
\* validation (a resolvable address, a cart or request items), matches no
\* persisted order, and to whose SetOrder the carrier would give answer
CarrierCall(u, cid, answer) ==
    /\ Len(profile[u].addresses) > 0
    /\ Matching(u, cid) = {}
    /\ ev'.op = "create"
    /\ \E clr \in BOOLEAN, items \in RequestItems :
          /\ carts[u] # <<>> \/ items # <<>>
          /\ CreateOrder(u, FALSE, clr, cid, items, answer)

\* C1 - idempotent checkout: a create-order call with a (user, checkout_id)
\* that an order already carries returns that order's identifier and
\* tracking number, and leaves exactly one order carrying it
C1_IdempotentCheckout ==
    [][\A u \in Users, cid \in CheckoutIds \ {None} :
          (Matching(u, cid) # {} /\ CreateCall(u, cid))
          => /\ Cardinality(Matching(u, cid)') = 1
             /\ ev'.oid \in Matching(u, cid)
             /\ order_doc_to_out(orders'[ev'.oid]).tracking_number
                  = order_doc_to_out(orders[ev'.oid]).tracking_number]_vars

\* C4 - a replay is not an error: a create-order call with a (user,
\* checkout_id) that an order already carries answers with a success code,
\* whatever the cart, the request items and the address book are
C4_ReplayNotError ==
    [][\A u \in Users, cid \in CheckoutIds \ {None} :
          (Matching(u, cid) # {} /\ CreateCall(u, cid))
          => ev'.code < 400]_vars

C6_CarrierFailure ==
    [][/\ \A u \in Users, cid \in CheckoutIds, answer \in SetOrderAnswers :
             (/\ ~create_shipment_with_setorder(settings, answer,
                                                minted + 1)[1]
              /\ CarrierCall(u, cid, answer))
             => /\ ev'.code = 502 /\ ev'.note = "carrier_failed"
                /\ orders' = orders
       /\ \A o \in OrderIds :
             (orders'[o].exists /\ ~orders'[o].shipment_simulated)
             => o \in shipments']_vars

\* C7 - successful checkout: a non-simulated call whose SetOrder the carrier
\* answers with ResultCode 0 and InvoiceKey K persists one order, status
\* Hazirlaniyor and shipment.tracking_number K, and returns it
C7_SuccessfulCheckout ==
    [][\A u \in Users, cid \in CheckoutIds, answer \in SetOrderAnswers :
          (/\ answer.transport = "ok" /\ answer.result_code = "0"
           /\ TruthyTrack(answer.invoice_key)
           /\ CarrierCall(u, cid, answer))
          => /\ ev'.code = 201
             /\ ev'.oid \in OrderIds
             /\ ~orders[ev'.oid].exists
             /\ orders'[ev'.oid].exists
             /\ orders'[ev'.oid].status = "Hazirlaniyor"
             /\ orders'[ev'.oid].shipment_tracking_number
                  = answer.invoice_key
             /\ \A o \in OrderIds \ {ev'.oid} : orders'[o] = orders[o]]_vars

---------------------------------------------------------------------------
(* Properties of the reconciliation *)

Terminal == {"TeslimEdildi", "Iptal"}
NonTerminal ==
    {"Hazirlaniyor", "SiparisAlindi", "KargoyaVerildi", "Yolda", "Dagitimda"}

\* C2 - monotonic state: a step of the synchronizer, a forced sync-status
\* call or a webhook call leaves the status of an order that is Teslim
\* Edildi or Iptal as it is
C2_MonotonicState ==
    [][\A o \in OrderIds :
          (/\ orders[o].exists /\ orders[o].status \in Terminal
           /\ ev'.op \in {"sync_step", "sync_status", "admin_sync_status",
                          "webhook"})
          => orders'[o].status = orders[o].status]_vars

\* C3 - simulated isolation: a step of the synchronizer or a webhook call
\* leaves status, tracking number and stored carrier text of an order
\* created with simulate=true as they are
C3_SimulatedIsolation ==
    [][\A o \in OrderIds :
          (/\ orders[o].exists /\ orders[o].shipment_simulated
           /\ ev'.op \in {"sync_step", "webhook"})
          => /\ orders'[o].status = orders[o].status
             /\ orders'[o].tracking_number = orders[o].tracking_number
             /\ orders'[o].last_aras_status = orders[o].last_aras_status]_vars

\* C8 - webhook authentication: a webhook call carrying a secret that
\* differs from the configured one is answered 401 and changes no order
C8_WebhookAuth ==
    [][\A payload \in WebhookPayloads :
          (/\ payload.secret # None
           /\ payload.secret # settings.ARAS_WEBHOOK_SECRET
           /\ aras_webhook(payload))
          => ev'.code = 401 /\ orders' = orders]_vars

\* C9 - delivered-flag precedence: after a step of the synchronizer or a
\* forced sync-status call whose status query succeeded and reported
\* delivered, the order is Teslim Edildi
C9_DeliveredPrecedence ==
    (/\ ev.op \in {"sync_step", "sync_status", "admin_sync_status"}
     /\ ev.note = "delivered")
    => orders[ev.oid].status = "TeslimEdildi"

\* the synchronizer has just got delivered together with a text the
\* classifier maps to Dagitimda
C9_Witness ==
    /\ ev.op = "sync_step" /\ ev.note = "delivered"
    /\ orders[ev.oid].last_aras_status = "Dagitimda"
    /\ map_aras_status(orders[ev.oid].last_aras_status) = "Dagitimda"
    /\ orders[ev.oid].status = "TeslimEdildi"

\* C10 - synchronizer selection: the documents a run starts with are the
\* non-simulated orders in a non-terminal state, and only those
C10_SynchronizerSelection ==
    ev.op = "sync_start"
    => {sync[i].id : i \in 1..Len(sync)}
         = {o \in OrderIds : /\ orders[o].exists
                             /\ ~orders[o].shipment_simulated
                             /\ orders[o].status \in NonTerminal}

\* the statuses at or past Kargoya Verildi, and the terminal ones
AtOrPastShipped == {"KargoyaVerildi", "Yolda", "Dagitimda"}
Closed == {"TeslimEdildi", "Iptal", "Iade"}

\* C11 - mark-shipped never regresses: the admin mark-shipped action moves
\* an order that is before Kargoya Verildi to Kargoya Verildi and leaves
\* the status of an order that is closed or at or past Kargoya Verildi as
\* it is
C11_MarkShipped ==
    [][\A o \in OrderIds :
          (orders[o].exists /\ admin_mark_shipped(o))
          => orders'[o].status =
                IF orders[o].status \in AtOrPastShipped \cup Closed
                THEN orders[o].status ELSE "KargoyaVerildi"]_vars

\* the position of a status in the lifecycle Hazirlaniyor < Siparis Alindi
\* < Kargoya Verildi < Yolda < Dagitimda < Teslim Edildi (0 outside it)
Rank(st) ==
    CASE st = "Hazirlaniyor"   -> 1
      [] st = "SiparisAlindi"  -> 2
      [] st = "KargoyaVerildi" -> 3
      [] st = "Yolda"          -> 4
      [] st = "Dagitimda"      -> 5
      [] st = "TeslimEdildi"   -> 6
      [] OTHER                 -> 0

\* C12 - advance or no-op: a step of the synchronizer or a webhook call
\* never moves the status of an order backward in the lifecycle
C12_AdvanceOrNoOp ==
    [][\A o \in OrderIds :
          (/\ orders[o].exists /\ Rank(orders[o].status) > 0
           /\ ev'.op \in {"sync_step", "webhook"})
          => Rank(orders'[o].status) >= Rank(orders[o].status)]_vars


---------------------------------------------------------------------------
(* A run of the synchronizer over several orders *)

\* the carrier's answers to the status queries of a run
BatchAnswers == {a \in QueryAnswers : a.tracking = NoTrack}

\* one user places orders, the admin marks them shipped, the scheduler runs
\* the synchronizer over all of them
NextBatch ==
    \/ add_address("u1", "Ankara")
    \/ CreateOrder("u1", TRUE, TRUE, None,
                   <<[product_id |-> "P1", quantity |-> 2, price |-> 2500]>>, NoAnswer)
    \/ \E o \in OrderIds : admin_mark_shipped(o)
    \/ SyncStart
    \/ \E answer \in BatchAnswers : SyncStep(answer)

InitBatch == Init /\ settings.ARAS_WEBHOOK_SECRET = ""

SpecBatch == InitBatch /\ [][NextBatch]_vars

\* the loop of a run that has started goes on to its next iteration
SpecBatchFair ==
    SpecBatch /\ WF_vars(\E answer \in BatchAnswers : SyncStep(answer))

\* the order is among those a run has selected and not yet come to
InRun(o) == \E i \in 1..Len(sync) : sync[i].id = o

\* C13 - batch isolation: an iteration whose carrier query failed leaves every
\* order document as it was and leaves the rest of the run's selection to be
\* iterated, and every order a run selected is eventually iterated, so the run
\* ends with nothing left of its selection
C13_BatchIsolation ==
    /\ [][(ev'.op = "sync_step" /\ ev'.note = "query_failed")
          => (orders' = orders /\ sync' = Tail(sync))]_vars
    /\ \A o \in OrderIds :
          InRun(o) ~> (~InRun(o) /\ ev.op = "sync_step" /\ ev.oid = o)

\* a query of a run has failed and the run still has an order to come to
C13_Witness ==
    /\ ev.op = "sync_step" /\ ev.note = "query_failed"
    /\ sync # <<>>
    /\ orders[ev.oid].status \in OPEN_STATUSES


---------------------------------------------------------------------------
(* Validation, deletion and the content of orders *)

\* the user has no address anywhere the resolution looks
NoAddressOf(u) == profile[u].addresses = <<>>

\* C14 - validation failures abort before any side effect: in every
\* reachable state, whatever a create-order call of a user with no address,
\* or with an empty cart and no request items, does, it is answered 400,
\* sends no SetOrder, mints no identifier and leaves the orders and the carts
\* as they were
C14_ValidationAborts ==
    \A u \in Users, items \in RequestItems :
       (NoAddressOf(u) \/ (carts[u] = <<>> /\ items = <<>>))
       => \A simulate \in BOOLEAN, clr \in BOOLEAN, cid \in CheckoutIds :
             \A answer \in IF simulate THEN {NoAnswer} ELSE SetOrderAnswers :
                LET rs == create_order_impl(u, simulate, clr, cid, items,
                                            answer)
                IN  /\ rs # {}
                    /\ \A r \in rs :
                          /\ r.ev.code = 400
                          /\ r.shipments = shipments
                          /\ r.minted = minted
                          /\ r.orders = orders
                          /\ r.carts = carts

\* a call of a user who has an address, an empty cart and no request items
\* has just been refused, after an order was placed and the cart refilled
C14_Witness ==
    /\ ev.op = "create" /\ ev.code = 400 /\ ev.note = "empty_cart"
    /\ \E o \in OrderIds : orders[o].exists
    /\ \E u \in Users : carts[u] # <<>>


---------------------------------------------------------------------------
(* Account deletion (routers/auth_delete.py, services/account_delete.py) *)

\* _cleanup_user_data: every document of the orders collection whose user_id
\* is uid is deleted (the addresses and notification_tokens collections it
\* also empties are not part of the state)
cleanup_user_data(os, uid) ==
    [o \in OrderIds |->
        IF os[o].exists /\ os[o].user_id = uid THEN NoDoc ELSE os[o]]

\* POST /auth/delete-account/initiate: a user with no e-mail is refused,
\* otherwise the request record is created or replaced
initiate_delete_account(u, has_email) ==
    /\ accounts[u].exists
    /\ IF ~has_email
       THEN /\ ev' = Ev("delete_initiate", 400, 0, "-")
            /\ UNCHANGED accounts
       ELSE /\ accounts' = [accounts EXCEPT ![u].request = "active"]
            /\ ev' = Ev("delete_initiate", 200, 0, "-")
    /\ UNCHANGED <<orders, minted, carts, profile, settings, inflight, resolved, sync,
                   shipments, calls>>

\* what the tests of verify_and_delete on an unconsumed request come to: the
\* clock against expires_at_unix, attempts against the maximum, the code
\* against code_hash
VerifyChecks == {"EXPIRED", "TOO_MANY_ATTEMPTS", "INVALID_CODE", "OK"}

\* POST /auth/delete-account/verify: verify_and_delete, and on a right code
\* _revoke_and_delete_user: tokens revoked, users/{uid} deleted, the user's
\* orders deleted, the auth account deleted, the request consumed
verify_delete_account(u, check) ==
    /\ accounts[u].exists
    /\ IF accounts[u].request # "active"
       THEN /\ ev' = Ev("delete_verify", 400, 0, "NO_ACTIVE_REQUEST")
            /\ UNCHANGED <<orders, profile, accounts>>
       ELSE IF check \in {"EXPIRED", "TOO_MANY_ATTEMPTS"}
       THEN /\ accounts' = [accounts EXCEPT ![u].request = "consumed"]
            /\ ev' = Ev("delete_verify",
                        IF check = "EXPIRED" THEN 400 ELSE 429, 0, check)
            /\ UNCHANGED <<orders, profile>>
       ELSE IF check = "INVALID_CODE"
       THEN /\ ev' = Ev("delete_verify", 400, 0, check)
            /\ UNCHANGED <<orders, profile, accounts>>
       ELSE /\ profile' = [profile EXCEPT ![u] = [addresses |-> <<>>]]
            /\ orders' = cleanup_user_data(orders, u)
            /\ accounts' = [accounts EXCEPT
                              ![u] = [exists |-> FALSE,
                                      request |-> "consumed"]]
            /\ ev' = Ev("delete_verify", 200, 0, "deleted")
    /\ UNCHANGED <<minted, carts, settings, inflight, resolved, sync, shipments, calls>>

\* users with an account place simulated orders and delete their accounts;
\* get_current_user refuses the token of a deleted account
NextAccount ==
    \/ \E u \in Users : accounts[u].exists /\ add_address(u, "Ankara")
    \/ \E u \in Users, cid \in CheckoutIds :
          /\ accounts[u].exists
          /\ CreateOrder(u, TRUE, TRUE, cid,
                         <<[product_id |-> "P1", quantity |-> 2, price |-> 2500]>>, NoAnswer)
    \/ \E u \in Users, has_email \in BOOLEAN :
          initiate_delete_account(u, has_email)
    \/ \E u \in Users, check \in VerifyChecks : verify_delete_account(u, check)

SpecAccount == InitBatch /\ [][NextAccount]_vars

\* C15 - orders are never deleted: no step of any operation makes an order
\* document that exists cease to exist
C15_NeverDeleted ==
    [][\A o \in OrderIds : orders[o].exists => orders'[o].exists]_vars


---------------------------------------------------------------------------
(* Labels, pickups and the content of an order *)

\* POST /admin/orders/{order_id}/label: 404 for no order, else attach_label;
\* an exception of it is answered 500, a failure 502 (integration_code is
\* set in every document build_order_doc wrote, so the 400 is not come to)
admin_get_label(o) ==
    /\ IF ~orders[o].exists
       THEN /\ ev' = Ev("label", 404, 0, "-")
            /\ UNCHANGED <<orders, calls>>
       ELSE LET r == attach_label(orders, calls, o,
                                  orders[o].integration_code)
            IN  /\ orders' = r.orders
                /\ calls' = r.calls
                /\ ev' = Ev("label",
                            IF r.raised THEN 500
                            ELSE IF ~r.ok THEN 502 ELSE 200, o, "-")
    /\ UNCHANGED <<minted, carts, profile, settings, accounts, inflight, resolved, sync, shipments>>

\* a deployment with AUTO_LABEL and AUTO_PICKUP set, so that creation runs
\* both hooks, and no webhook secret
InitFulfillment ==
    InitOf({st \in AllSettings :
              st.ARAS_WEBHOOK_SECRET = "" /\ st.AUTO_LABEL /\ st.AUTO_PICKUP},
           {Unresolved})

\* every operation that writes to an order, on orders one user places
NextFulfillment ==
    \/ add_address("u1", "Ankara")
    \/ /\ minted < MaxReconOrders
       /\ CreateOrder("u1", TRUE, TRUE, None,
                      <<[product_id |-> "P1", quantity |-> 2, price |-> 2500]>>, NoAnswer)
    \/ \E o \in ReconIds : admin_get_label(o)
    \/ \E o \in ReconIds, answer \in BatchAnswers :
          sync_status_from_aras(o, "u1", FALSE, answer)
    \/ \E o \in ReconIds, answer \in BatchAnswers : admin_sync_status(o, answer)
    \/ \E o \in ReconIds : admin_mark_delivered(o)
    \/ \E o \in ReconIds : admin_mark_shipped(o)
    \/ SyncStart
    \/ \E answer \in BatchAnswers : SyncStep(answer)
    \/ \E payload \in WebhookPayloads :
          payload.secret = None /\ aras_webhook(payload)

SpecFulfillment == InitFulfillment /\ [][NextFulfillment]_vars

\* deployments with any setting of AUTO_LABEL and AUTO_PICKUP
InitAutomation ==
    InitOf({st \in AllSettings : st.ARAS_WEBHOOK_SECRET = ""}, {Unresolved})

\* one user places orders, simulated or not, and the admin asks for labels
NextAutomation ==
    \/ add_address("u1", "Ankara")
    \/ \E simulate \in BOOLEAN, cid \in CheckoutIds :
          \E answer \in IF simulate THEN {NoAnswer} ELSE SetOrderAnswers :
             CreateOrder("u1", simulate, TRUE, cid,
                         <<[product_id |-> "P1", quantity |-> 2, price |-> 2500]>>, answer)
    \/ \E o \in OrderIds : admin_get_label(o)

SpecAutomation == InitAutomation /\ [][NextAutomation]_vars

\* what an order is created with and keeps
Content(d) == <<d.items, d.totals, d.address, d.user_id, d.integration_code>>

\* C16 - write-once order content: no step of the synchronizer, the forced
\* syncs, the webhook, mark-shipped, mark-delivered, the label endpoint or
\* the hooks after creation changes the items, the totals, the address
\* snapshot, the user_id or the integration code of an order that exists
C16_WriteOnceContent ==
    [][\A o \in OrderIds :
          (orders[o].exists /\ orders'[o].exists)
          => Content(orders'[o]) = Content(orders[o])]_vars

\* a webhook has just patched status, carrier text and tracking number of an
\* order that still carries its lines, totals and address
C16_Witness ==
    /\ ev.op = "webhook" /\ ev.code = 200 /\ ev.oid \in OrderIds
    /\ orders[ev.oid].status # "Hazirlaniyor"
    /\ TruthyTrack(orders[ev.oid].tracking_number)
    /\ orders[ev.oid].items # <<>>
    /\ orders[ev.oid].totals.item_count > 0
    /\ TruthyAddr(orders[ev.oid].address)

\* C17 - fulfillment automation is best-effort: in every reachable state,
\* with AUTO_LABEL and AUTO_PICKUP set or not, every create-order call that
\* writes an order is answered 201 with that order, the order is left with
\* status Hazirlaniyor, and the pickup hook has asked for the pickup when
\* AUTO_PICKUP is set, whatever the label hook did
C17_BestEffortAutomation ==
    \A u \in Users, simulate \in BOOLEAN, clr \in BOOLEAN,
       cid \in CheckoutIds, items \in RequestItems :
       \A answer \in IF simulate THEN {NoAnswer} ELSE SetOrderAnswers :
          \A r \in create_order_impl(u, simulate, clr, cid, items, answer) :
             (r.minted = minted + 1 /\ r.minted \in OrderIds
                /\ r.orders[minted + 1].exists)
             => /\ r.ev.code = 201 /\ r.ev.oid = minted + 1
                /\ r.orders[minted + 1].status = "Hazirlaniyor"
                /\ settings.AUTO_LABEL => <<"label", minted + 1>> \in r.calls
                /\ settings.AUTO_PICKUP => <<"pickup", minted + 1>> \in r.calls

\* an order has just been created with both hooks on: both were run, both
\* raised, and the order is there with status Hazirlaniyor
C17_Witness ==
    /\ ev.op = "create" /\ ev.code = 201 /\ ev.note = "created"
    /\ settings.AUTO_LABEL /\ settings.AUTO_PICKUP
    /\ {<<"label", ev.oid>>, <<"pickup", ev.oid>>} \subseteq calls
    /\ orders[ev.oid].exists /\ orders[ev.oid].status = "Hazirlaniyor"
    /\ orders[ev.oid].label_url = None /\ ~orders[ev.oid].pickup.present


---------------------------------------------------------------------------
(* The webhook over several orders *)

\* one user places orders and the carrier, or anyone, posts to the webhook
NextWebhook ==
    \/ add_address("u1", "Ankara")
    \/ CreateOrder("u1", TRUE, TRUE, None,
                   <<[product_id |-> "P1", quantity |-> 2, price |-> 2500]>>, NoAnswer)
    \/ \E o \in OrderIds : admin_mark_delivered(o)
    \/ \E payload \in WebhookPayloads : aras_webhook(payload)

SpecWebhook == Init /\ [][NextWebhook]_vars

\* the call passes the shared-secret test of the deployment
LetThrough(payload) ==
    \/ settings.ARAS_WEBHOOK_SECRET = ""
    \/ payload.secret = settings.ARAS_WEBHOOK_SECRET

\* the orders that carry the integration code
IntegrationMatches(integ) ==
    {o \in OrderIds : orders[o].exists /\ orders[o].integration_code = integ}

\* C18 - webhook outcomes: a call that passes the secret test is answered
\* 400 when it names no order and 404 when the code it names is that of no
\* order, and changes no order in either case; otherwise it is answered 200,
\* one order carries the code, that order gets the status of the text, the
\* text and, when one is given, the tracking number, and no other order
\* changes
C18_WebhookOutcomes ==
    [][\A payload \in WebhookPayloads :
          (LetThrough(payload) /\ aras_webhook(payload))
          => LET T == IntegrationMatches(payload.integ)
             IN  IF payload.integ = 0
                 THEN ev'.code = 400 /\ orders' = orders
                 ELSE IF T = {}
                 THEN ev'.code = 404 /\ orders' = orders
                 ELSE /\ ev'.code = 200
                      /\ Cardinality(T) = 1
                      /\ \A o \in OrderIds :
                            orders'[o] =
                               IF o \in T
                               THEN [orders[o] EXCEPT
                                       !.status =
                                           map_status(payload.status_text),
                                       !.last_aras_status =
                                           payload.status_text,
                                       !.tracking_number =
                                           IF TruthyTrack(
                                                  payload.tracking_number)
                                           THEN payload.tracking_number
                                           ELSE @]
                               ELSE orders[o]]_vars

\* with a secret configured, a webhook has just patched one of two orders
\* and left the other as it was created
C18_Witness ==
    /\ settings.ARAS_WEBHOOK_SECRET # ""
    /\ ev.op = "webhook" /\ ev.code = 200 /\ ev.oid \in OrderIds
    /\ orders[ev.oid].last_aras_status # None
    /\ \E o \in OrderIds \ {ev.oid} :
          /\ orders[o].exists
          /\ orders[o].status = "Hazirlaniyor"
          /\ orders[o].last_aras_status = None


---------------------------------------------------------------------------
(* Concurrent create-order calls.  The endpoints are plain functions, which *)
(* the server runs on worker threads, and the idempotency query and the      *)
(* write of the order are separate requests to the database.                *)

\* the calls that have made their idempotency query and not yet gone on
LookedUp == {c \in Calls : inflight[c].pc = "looked_up"}

\* call c runs up to its idempotency query: it is answered there, or it
\* goes on with what it has read; before records the calls that were
\* between query and write when c made its query
CreateLookup(c, u, simulate, clear_cart_on_success, checkout_id, request_items) ==
    /\ inflight[c].pc = "idle"
    /\ LET head == create_order_head(u, checkout_id, request_items)
       IN  IF create_order_early(head) # {}
           THEN /\ \E r \in create_order_early(head) : ev' = r.ev
                /\ UNCHANGED inflight
           ELSE /\ inflight' = [inflight EXCEPT
                                  ![c] = [pc |-> "looked_up", u |-> u,
                                          simulate |-> simulate,
                                          clear_cart_on_success |->
                                              clear_cart_on_success,
                                          checkout_id |-> checkout_id,
                                          head |-> head,
                                          before |-> LookedUp]]
                /\ ev' = Ev("create_lookup", 0, 0, "-")
    /\ UNCHANGED <<orders, minted, carts, profile, settings, accounts, resolved,
                   sync, shipments, calls>>

\* call c runs from the identifier to its response
CreateFinish(c, answer) ==
    /\ inflight[c].pc = "looked_up"
    /\ \E r \in create_order_rest(inflight[c].u, inflight[c].simulate,
                                  inflight[c].clear_cart_on_success,
                                  inflight[c].checkout_id, inflight[c].head,
                                  answer) :
          /\ orders' = r.orders
          /\ minted' = r.minted
          /\ carts' = r.carts
          /\ shipments' = r.shipments
          /\ calls' = r.calls
          /\ ev' = r.ev
    /\ inflight' = [inflight EXCEPT ![c].pc = "finished"]
    /\ UNCHANGED <<profile, settings, accounts, resolved, sync>>

\* the answers the carrier can give call c
CallAnswers(c) ==
    IF inflight[c].pc = "looked_up" /\ ~inflight[c].simulate
    THEN SetOrderAnswers ELSE {NoAnswer}

\* users send create-order calls for a checkout, simulated or not, that run
\* concurrently
NextRace ==
    \/ \E u \in Users : add_address(u, "Ankara")
    \/ \E c \in Calls, u \in Users, simulate \in BOOLEAN :
          CreateLookup(c, u, simulate, TRUE, "c1",
                       <<[product_id |-> "P1", quantity |-> 2, price |-> 2500]>>)
    \/ \E c \in Calls : \E answer \in CallAnswers(c) : CreateFinish(c, answer)

SpecRace == InitBatch /\ [][NextRace]_vars

\* the orders of call c's user that carry call c's checkout_id
OrdersOfCall(os, c) ==
    {o \in OrderIds : /\ os[o].exists
                      /\ os[o].user_id = inflight[c].u
                      /\ os[o].checkout_id = inflight[c].checkout_id}

\* both calls made their idempotency query before either went on
Overlapped(c1, c2) ==
    /\ c1 # c2
    /\ inflight[c1].pc # "idle" /\ inflight[c2].pc # "idle"
    /\ c1 \in inflight[c2].before \/ c2 \in inflight[c1].before

---------------------------------------------------------------------------
(* Address resolution on its own *)

\* what resolve_active_address can find: an address on the principal, an
\* address id on the principal or the profile, an embedded active_address
\* and an addresses array on the profile, a flagged document in the
\* sub-collection and a document of the user in the root collection; the
\* documents have the id the references name
AddressInputs ==
    [p_address : {NoAddr, Addr("P")},
     p_address_id : {None, "a1"},
     u_address_id : {None, "a1"},
     u_active_address : {NoAddr, Addr("U")},
     u_addresses : {<<>>, <<[a |-> Addr("A"), flags |-> {}]>>},
     sub : {<<>>, <<[id |-> "a1", a |-> Addr("S"),
                     flags |-> {"is_default"}]>>},
     root : {<<>>, <<[id |-> "a1", a |-> Addr("R"), user_id |-> "u1"]>>}]

InputPrincipal(i) ==
    [uid |-> "u1", embedded |-> <<i.p_address, NoAddr, NoAddr>>,
     ids |-> <<i.p_address_id, None, None, None>>]

InputUserData(i) ==
    [ids |-> <<i.u_address_id, None, None, None>>,
     active_address |-> i.u_active_address,
     addresses |-> i.u_addresses]

InitAddress ==
    InitOf({st \in DefaultSettings : st.ARAS_WEBHOOK_SECRET = ""},
           {[done |-> FALSE, input |-> i, out |-> NoAddr] :
               i \in AddressInputs})

\* resolve_active_address is applied to the input
ResolveAddress ==
    /\ ~resolved.done
    /\ resolved' = [resolved EXCEPT
                      !.done = TRUE,
                      !.out = resolve_active_address(
                                  InputPrincipal(resolved.input),
                                  InputUserData(resolved.input),
                                  resolved.input.sub, resolved.input.root)]
    /\ ev' = Ev("resolve", 0, 0, "-")
    /\ UNCHANGED <<orders, minted, carts, profile, settings, accounts,
                   inflight, sync, shipments, calls>>

NextAddress == ResolveAddress

SpecAddress == InitAddress /\ [][NextAddress]_vars

\* the strategies in the order stated, each giving its address or none
StatedStrategies(i) ==
    <<i.p_address,
      IF i.p_address_id = None /\ i.u_address_id = None THEN NoAddr
      ELSE IF i.sub # <<>> THEN i.sub[1].a
      ELSE IF i.root # <<>> THEN i.root[1].a
      ELSE NoAddr,
      i.u_active_address,
      IF i.u_addresses # <<>> THEN resolve_from_array(i.u_addresses)
                              ELSE NoAddr,
      IF i.sub # <<>> THEN resolve_from_sub(i.sub) ELSE NoAddr,
      IF i.root # <<>> THEN i.root[1].a ELSE NoAddr>>

\* C20 - address resolution order: the address returned is that of the
\* first of the strategies, taken in the order principal address, address
\* id reference, profile active_address, addresses array, sub-collection,
\* root collection, that yields one, and none when none does
C20_ResolutionOrder ==
    resolved.done
    => LET st == StatedStrategies(resolved.input)
           k == FirstTruthyAddr(st, 1)
       IN  resolved.out = IF k = 0 THEN NoAddr ELSE st[k]


---------------------------------------------------------------------------
(* Addresses without a city.  AddressCreate requires city to be a string   *)
(* and puts no lower bound on its length, so an address whose city is the  *)
(* empty string is stored like any other.                                  *)

\* the cities an address can be added with
Cities == {"", "Ankara"}

\* users fill and empty their address books and place simulated orders
NextPartial ==
    \/ \E u \in Users, city \in Cities : add_address(u, city)
    \/ \E u \in Users, i \in 1..MaxAddresses : delete_address(u, i)
    \/ \E u \in Users :
          CreateOrder(u, TRUE, TRUE, None,
                      <<[product_id |-> "P1", quantity |-> 1, price |-> 0]>>,
                      NoAnswer)

SpecPartial == InitBatch /\ [][NextPartial]_vars

\* C21 - no partial address: in every reachable state the address the
\* resolution gives for a user, when it gives one, has a non-empty city, and
\* so has the address of every order that was created; a user whose only
\* candidates have no city is refused with the no-address error
C21_NoPartialAddress ==
    /\ \A u \in Users :
          LET a == resolve_active_address(Principal(u), UserData(profile[u]),
                                          <<>>, <<>>)
          IN  TruthyAddr(a) => a.city # ""
    /\ \A o \in OrderIds : orders[o].exists => orders[o].address.city # ""
    /\ (ev.op = "create" /\ ev.code = 201)
       => orders[ev.oid].address.city # ""


---------------------------------------------------------------------------
(* The amounts of an order *)

\* the lines a request body can carry: OrderItem has an integer quantity
\* with no lower bound and a price, here a whole number of minor units
PricedLines ==
    [product_id : Products, quantity : {0, 3}, price : {1990, 2500}]

\* request bodies of one or two lines
PricedItems ==
    {<<l>> : l \in PricedLines}
    \cup {<<l1, l2>> : l1 \in PricedLines, l2 \in {l \in PricedLines : l.quantity = 3}}

\* one user fills a cart or not and places simulated orders with priced lines
NextTotals ==
    \/ add_address("u1", "Ankara")
    \/ \E p \in Products : add_to_cart("u1", p, 1)
    \/ \E items \in PricedItems :
          CreateOrder("u1", TRUE, TRUE, None, items, NoAnswer)

SpecTotals == InitBatch /\ [][NextTotals]_vars

\* round(x, 2) of an amount
Round2(x) ==
    LET r == x % 10
        lo == x - r
    IN  IF r < 5 \/ (r = 5 /\ (lo \div 10) % 2 = 0) THEN lo ELSE lo + 10

RECURSIVE SumOver(_, _)
\* the sum of f[i] over the indices from 1 to n
SumOver(f, n) == IF n = 0 THEN 0 ELSE f[n] + SumOver(f, n - 1)

\* C22 - line-item and totals arithmetic: in every persisted order, every
\* line has a quantity of at least 1 and a line_total equal to
\* round(unit_price * quantity, 2), and the totals have item_count the sum of
\* the quantities, subtotal the sum of the line totals and grand_total equal
\* to subtotal - discount + shipping + tax
C22_Arithmetic ==
    \A o \in OrderIds :
       orders[o].exists
       => LET its == orders[o].items
              t == orders[o].totals
              n == Len(its)
          IN  /\ \A i \in 1..n :
                    /\ its[i].quantity >= 1
                    /\ its[i].line_total
                         = Round2(its[i].unit_price * its[i].quantity)
              /\ t.item_count = SumOver([i \in 1..n |-> its[i].quantity], n)
              /\ t.subtotal = SumOver([i \in 1..n |-> its[i].line_total], n)
              /\ t.grand_total = t.subtotal - t.discount + t.shipping + t.tax

\* an order of two lines with different unit prices, one of them with a
\* quantity raised to 1 and one with quantity 3, is there with its totals
C22_Witness ==
    \E o \in OrderIds :
       /\ orders[o].exists
       /\ Len(orders[o].items) = 2
       /\ orders[o].items[1].unit_price # orders[o].items[2].unit_price
       /\ orders[o].items[1].quantity = 1
       /\ orders[o].items[2].quantity = 3
       /\ orders[o].totals.grand_total > orders[o].items[2].line_total
       /\ orders[o].totals.item_count = 4


---------------------------------------------------------------------------
(* The status a carrier text is given on each reconciliation path *)

\* carrier status texts: one for each keyword the classifiers look for, one
\* with two keywords and one with none
ClassifierTexts ==
    {"Teslim Edildi", "Dagitimda", "Yolda", "Transfer Merkezinde",
     "Kabul Edildi", "Subede", "Hub", "Dagitimda Teslim", "Bilinmiyor"}

\* webhook calls that carry a text and no tracking number
TextPayloads ==
    [secret : {None}, integ : 0..MaxReconOrders,
     status_text : ClassifierTexts, tracking_number : {NoTrack}]

\* answers to the status query that carry a text and no tracking number
TextAnswers ==
    [transport : {"ok"}, http : {200}, parses : {TRUE},
     status_text : ClassifierTexts, is_delivered : BOOLEAN,
     tracking : {NoTrack}]

\* one user places an order; the carrier posts texts to the webhook and
\* answers the forced syncs and the synchronizer with texts
NextClassify ==
    \/ add_address("u1", "Ankara")
    \/ /\ minted < MaxReconOrders
       /\ CreateOrder("u1", TRUE, TRUE, None,
                      <<[product_id |-> "P1", quantity |-> 2, price |-> 2500]>>,
                      NoAnswer)
    \/ \E payload \in TextPayloads : aras_webhook(payload)
    \/ \E o \in ReconIds, answer \in TextAnswers :
          sync_status_from_aras(o, "u1", FALSE, answer)
    \/ \E o \in ReconIds, answer \in TextAnswers : admin_sync_status(o, answer)
    \/ SyncStart
    \/ \E answer \in TextAnswers : SyncStep(answer)

SpecClassify == InitBatch /\ [][NextClassify]_vars

\* C23 - same classifier on both paths: the status a webhook call writes for
\* a text is the status a forced sync-status, and a step of the synchronizer,
\* on the same order would write for a carrier answer with that text and the
\* delivered flag unset
C23_SameClassifier ==
    [][\A payload \in TextPayloads, answer \in TextAnswers :
          (/\ aras_webhook(payload) /\ ev'.code = 200
           /\ answer.status_text = payload.status_text
           /\ ~answer.is_delivered)
          => LET d == orders[ev'.oid]
                 res == get_status_with_integration_code(settings, answer)
             IN  /\ orders'[ev'.oid].status = sync_status_patch(d, res).status
                 /\ orders'[ev'.oid].status
                      = sync_patch(d, [id |-> ev'.oid,
                                       tracking_number |-> d.tracking_number],
                                   res).status]_vars


---------------------------------------------------------------------------
(* The statuses an order can come to *)

\* the statuses one operation can leave in the status field of document d:
\* a forced sync-status and a step of the synchronizer for any carrier
\* answer, a webhook call for any text, mark-delivered and mark-shipped (the
\* label endpoint and the hooks after creation do not write the field)
StatusWritten(d) ==
    {sync_status_patch(d, get_status_with_integration_code(settings, a)).status :
        a \in TextAnswers}
    \cup {sync_patch(d, [id |-> d.integration_code,
                         tracking_number |-> d.tracking_number],
                     get_status_with_integration_code(settings, a)).status :
             a \in TextAnswers}
    \cup {webhook_patch(d, p).status : p \in TextPayloads}
    \cup {"TeslimEdildi"}
    \cup {IF d.status \in {"TeslimEdildi", "Iptal"} THEN d.status
                                                    ELSE "KargoyaVerildi"}

RECURSIVE StatusClosure(_, _)
\* the statuses document d can come to from those of S by any sequence of
\* operations
StatusClosure(d, S) ==
    LET N == S \cup UNION {StatusWritten([d EXCEPT !.status = s]) : s \in S}
    IN  IF N = S THEN S ELSE StatusClosure(d, N)

\* every step of every operation leaves an order with the status it had or
\* with one of StatusWritten
StatusStepsCovered ==
    [][\A o \in OrderIds :
          (orders[o].exists /\ orders'[o].exists)
          => orders'[o].status
               \in {orders[o].status} \cup StatusWritten(orders[o])]_vars

\* C24 - reachability of the terminal states: for every order in a
\* non-terminal state there is a sequence of operations after which its
\* status is Iptal, and one after which it is Iade
C24_TerminalReachable ==
    \A o \in OrderIds :
       (orders[o].exists /\ orders[o].status \in NonTerminal)
       => {"Iptal", "Iade"}
            \subseteq StatusClosure(orders[o], {orders[o].status})


---------------------------------------------------------------------------
(* The record of a pickup request *)

\* C25 - pickup outcome is always recorded: in every reachable state, an
\* order for which the pickup hook has asked the carrier for a pickup
\* carries a pickup annotation, whatever the carrier's answer was
C25_PickupRecorded ==
    \A o \in OrderIds :
       (orders[o].exists /\ <<"pickup", o>> \in calls)
       => orders[o].pickup.present


---------------------------------------------------------------------------
(* The result of opening a shipment *)

\* what the carrier can answer to SetOrder: the transport fails or not, the
\* HTTP status, a body that parses or not, ResultCode and ResultMessage
\* present or not, InvoiceKey and BarcodeNumber filled or not
GatewayAnswers ==
    [transport : {"ok", "error"}, http : {200, 500}, parses : BOOLEAN,
     result_code : {None, "0", "5"}, result_msg : {None, "Invalid address"},
     invoice_key : {NoTrack, KeyTrack(1)}, barcode : {NoTrack, KeyTrack(2)}]

\* the carrier accepted the shipment
Accepted(answer) ==
    /\ answer.transport = "ok" /\ answer.http = 200 /\ answer.parses
    /\ answer.result_code = "0"

\* the result (ok, tracking number, message) meets the contract for answer
MeetsContract(res, answer, integration_code) ==
    /\ res[1] = Accepted(answer)
    /\ res[1] => res[2] = IF TruthyTrack(answer.invoice_key)
                          THEN answer.invoice_key
                          ELSE IF TruthyTrack(answer.barcode)
                          THEN answer.barcode
                          ELSE CodeTrack(integration_code)
    /\ ~res[1] => (res[2] = NoTrack /\ Truthy(res[3]))

\* C26 - carrier gateway result contract: in every reachable state, whatever
\* the carrier answers, opening a shipment the way order creation does for
\* the order it is about to write raises nothing and returns a triple whose
\* ok is true exactly when the transport succeeded, the HTTP status is 200
\* and the result code is present and "0", with the tracking number
\* InvoiceKey, else BarcodeNumber, else the integration code on success, and
\* no tracking number and a message on failure
C26_GatewayContract ==
    \A answer \in GatewayAnswers :
       LET r == aras_single_package(settings, answer, minted + 1)
       IN  /\ ~r.raised
           /\ MeetsContract(r.res, answer, minted + 1)


---------------------------------------------------------------------------
(* Forced synchronisation of a simulated order *)

\* C27 - forced sync on a simulated order is a no-op: a sync-status call by
\* the owner or an admin, and an admin sync-status call, on an order created
\* with simulate=true sends no status query to the carrier, is answered 200
\* with the order, and leaves every field of the order as it was
C27_SimulatedForcedSync ==
    [][\A o \in OrderIds :
          (/\ orders[o].exists /\ orders[o].shipment_simulated
           /\ ev'.op \in {"sync_status", "admin_sync_status"}
           /\ ev'.oid = o /\ ev'.code # 403)
          => /\ ev'.code = 200 /\ ev'.note = "skipped"
             /\ orders'[o] = orders[o]]_vars


---------------------------------------------------------------------------
(* The synchronizer and the other writers of an order *)

\* C28 - the synchronizer preserves a concurrent status change: an iteration
\* of the synchronizer whose carrier answer does not report delivered leaves
\* the status of its order as it finds it at the write, whatever mark-shipped,
\* mark-delivered, a forced sync or the webhook made of it since the run
\* read the order, and leaves the other orders as they are
C28_SyncPreservesStatus ==
    [][(ev'.op = "sync_step" /\ ev'.note = "not_delivered")
       => /\ orders'[ev'.oid].status = orders[ev'.oid].status
          /\ \A o \in OrderIds \ {ev'.oid} : orders'[o] = orders[o]]_vars

\* an iteration has just written the carrier's text to an order that was
\* open when the run read it and that another actor has closed or reset
\* since: the status is the other actor's
C28_Witness ==
    /\ ev.op = "sync_step" /\ ev.note = "not_delivered"
    /\ orders[ev.oid].last_aras_status = "Dagitimda"
    /\ orders[ev.oid].status \notin OPEN_STATUSES


---------------------------------------------------------------------------
(* The cart and order creation *)

\* deployments with a carrier environment the order flow accepts and with
\* one it refuses
CartSettings ==
    [ARAS_WEBHOOK_SECRET : {""}, ARAS_ENV : {"TEST", "STAGING"},
     ARAS_CREDENTIALS : {TRUE}, AUTO_LABEL : {FALSE}, AUTO_PICKUP : {FALSE}]

InitCart == InitOf(CartSettings, {Unresolved})

\* the bodies of the create-order calls: no items, or one line
CartRequestItems ==
    {<<>>, <<[product_id |-> "P1", quantity |-> 2, price |-> 2500]>>}

\* one user fills an address book and a cart and places orders, simulated
\* or not, with and without a checkout id, asking for the cart to be cleared
\* or not
NextCart ==
    \/ add_address("u1", "Ankara")
    \/ \E p \in Products : add_to_cart("u1", p, 1)
    \/ \E simulate \in BOOLEAN, clr \in BOOLEAN, cid \in CheckoutIds,
          items \in CartRequestItems :
          \E answer \in IF simulate THEN {NoAnswer} ELSE SetOrderAnswers :
             CreateOrder("u1", simulate, clr, cid, items, answer)

SpecCart == InitCart /\ [][NextCart]_vars

\* C29 - the cart is cleared only after the order is written: in every
\* reachable state, whatever a create-order call does, a call that is
\* refused and a call that is answered with an existing order leave the
\* carts as they were, and a call that changes a cart has written a new
\* order, was asked to clear the cart, found the caller's cart non-empty,
\* built the order's lines from it, and has emptied that cart and no other
C29_CartClearedAfterWrite ==
    \A u \in Users, simulate \in BOOLEAN, clr \in BOOLEAN,
       cid \in CheckoutIds, items \in CartRequestItems :
       \A answer \in IF simulate THEN {NoAnswer} ELSE SetOrderAnswers :
          \A r \in create_order_impl(u, simulate, clr, cid, items, answer) :
             /\ (r.ev.code # 201 \/ r.ev.note = "replay") => r.carts = carts
             /\ r.carts # carts
                => /\ r.ev.code = 201 /\ r.ev.note = "created"
                   /\ clr /\ carts[u] # <<>>
                   /\ ~orders[r.ev.oid].exists /\ r.orders[r.ev.oid].exists
                   /\ Len(r.orders[r.ev.oid].items) = Len(carts[u])
                   /\ \A i \in 1..Len(carts[u]) :
                         r.orders[r.ev.oid].items[i].product_id
                           = carts[u][i].product_id
                   /\ r.carts = [carts EXCEPT ![u] = <<>>]
             /\ (r.ev.note = "created" /\ (~clr \/ carts[u] = <<>>))
                => r.carts = carts

\* a call has just written an order built from the cart and emptied the
\* cart, after a call was refused once it had taken an identifier
C29_Witness ==
    /\ ev.op = "create" /\ ev.code = 201 /\ ev.note = "created"
    /\ orders[ev.oid].exists /\ orders[ev.oid].items[1].unit_price = 0
    /\ carts[orders[ev.oid].user_id] = <<>>
    /\ minted > Cardinality({o \in OrderIds : orders[o].exists})


---------------------------------------------------------------------------
(* The quantities of an order built from the cart *)

\* C30 - an order carries the cart's quantities: in every reachable state,
\* whatever a create-order call that builds its order from the caller's cart
\* does, the order it writes has one line for each line of the cart, with
\* the cart line's product and quantity, and an item_count equal to the sum
\* of the cart's quantities
C30_CartQuantities ==
    \A u \in Users, simulate \in BOOLEAN, clr \in BOOLEAN,
       cid \in CheckoutIds, items \in CartRequestItems :
       \A answer \in IF simulate THEN {NoAnswer} ELSE SetOrderAnswers :
          \A r \in create_order_impl(u, simulate, clr, cid, items, answer) :
             (r.ev.note = "created" /\ carts[u] # <<>>)
             => LET d == r.orders[r.ev.oid]
                IN  /\ Len(d.items) = Len(carts[u])
                    /\ \A i \in 1..Len(carts[u]) :
                          /\ d.items[i].product_id = carts[u][i].product_id
                          /\ d.items[i].quantity = carts[u][i].qty
                    /\ d.totals.item_count = cart_qty(carts[u])

===========================================================================
